---- MODULE Spec2Model ----
(***************************************************************************)
(* Model of the dataset-cache construction of                              *)
(* learner/distributed_decision_tree/dataset_cache/dataset_cache.cc:       *)
(* CreateDatasetCacheFromShardedFiles, GetColumnsOrAll,                    *)
(* internal::InitializeMetadata and internal::SeparateDatasetColumns.      *)
(*                                                                         *)
(* Optional proto fields and nullable pointers are sequences of length 0   *)
(* (unset / nullptr) or 1 (set): Has(x) is has_x(), Val(x) is x().         *)
(***************************************************************************)
EXTENDS Integers, Sequences, FiniteSets, TLC

VARIABLES
  data_spec,            \* the dataset schema: sequence of column specifications
  dataset_shards,       \* the input shards the typed path expands to
  num_workers,          \* distribute_manager->NumWorkers()
  env,                  \* "faulty": external calls may fail; "reliable": they do not
  dirs,                 \* directories that exist under the cache directory
  rootFile,             \* the root Cache Metadata file: <<>> or <<metadata>>
  shardFiles,           \* Shard Metadata files: path -> num_examples
  pc,                   \* position of the coordinating flow
  status,               \* the absl::Status the last invocation returned
  config,               \* CreateDatasetCacheConfig of the running invocation
  columns,              \* the "columns" argument: <<>> (nullptr) or <<vector>>
  effective_columns,    \* result of GetColumnsOrAll
  metadata,             \* the in-progress proto::CacheMetadata
  manager,              \* the distribute manager of the running invocation
  shards_per_requests,  \* local of SeparateDatasetColumns
  num_output_shards,    \* local of SeparateDatasetColumns
  output_shard_idx,     \* dispatch loop counter
  pending_requests,     \* number of submitted requests
  result_idx,           \* collect loop counter
  result,               \* collect loop: the answer being processed, <<>> or <<result>>
  start,                \* history: the cache directory when the invocation began
  requests,             \* history: the requests submitted by the invocation, in order
  features,             \* MetaDataReport: the "features" argument, <<>> (nullopt) or <<vector>>
  report                \* MetaDataReport: the text returned, a sequence of lines

vars == <<data_spec, dataset_shards, num_workers, env, dirs, rootFile, shardFiles,
          pc, status, config, columns, effective_columns, metadata, manager,
          shards_per_requests, num_output_shards, output_shard_idx,
          pending_requests, result_idx, result, start, requests, features,
          report>>

------------------------------------------------------------------------------
(* Bounds of the model. *)

\* Largest number of schema columns in the metadata-builder specification.
MaxCols == 2
\* Longest explicit column vector given to a build.
MaxSubsetLen == 2
\* Largest number of input shards in the build specification.
MaxShards == 2
\* Largest worker pool in the build specification.
MaxWorkers == 2
\* Largest number of input shards in the planner specification.
MaxPlanShards == 45
\* Largest worker pool in the planner specification.
MaxPlanWorkers == 4
\* Largest number of columns of the metadata in the report specification.
MaxReportCols == 3
\* Longest explicit feature vector in the report specification.
MaxReportFeatures == 2

(* Program constants. *)
kNumParallelQueriesPerWorker == 5
kNumShardPerWorkers == 10

------------------------------------------------------------------------------
(* Generic helpers. *)

Has(x) == Len(x) = 1
Val(x) == x[1]
Unset == <<>>
Set(v) == <<v>>

Max(a, b) == IF a >= b THEN a ELSE b
Min(a, b) == IF a <= b THEN a ELSE b

RECURSIVE SeqsUpTo(_, _)
\* All sequences over S of length at most n.
SeqsUpTo(S, n) ==
  IF n = 0 THEN {<<>>}
  ELSE LET shorter == SeqsUpTo(S, n - 1)
       IN shorter \cup {Append(s, x) : s \in {t \in shorter : Len(t) = n - 1}, x \in S}

RECURSIVE SumOver(_, _)
\* Sum of f[x] over the finite set S.
SumOver(f, S) ==
  IF S = {} THEN 0
  ELSE LET x == CHOOSE y \in S : TRUE IN f[x] + SumOver(f, S \ {x})

------------------------------------------------------------------------------
(* absl::Status values. *)

OkStatus == [code |-> "OK", message |-> ""]
InvalidArgumentError(msg) == [code |-> "INVALID_ARGUMENT", message |-> msg]
\* The error an external collaborator (filesystem, worker pool) returns.
ExternalError(call) == [code |-> "EXTERNAL", message |-> call]
NoStatus == [code |-> "NONE", message |-> ""]

------------------------------------------------------------------------------
(* The dataset schema (dataset::proto::DataSpecification). *)

NumericalSpec(mean) ==
  [type |-> "NUMERICAL", mean |-> mean, number_of_unique_values |-> 0,
   most_frequent_value |-> 0, count_true |-> 0, count_false |-> 0]
CategoricalSpec(n, mfv) ==
  [type |-> "CATEGORICAL", mean |-> 0, number_of_unique_values |-> n,
   most_frequent_value |-> mfv, count_true |-> 0, count_false |-> 0]
BooleanSpec(ct, cf) ==
  [type |-> "BOOLEAN", mean |-> 0, number_of_unique_values |-> 0,
   most_frequent_value |-> 0, count_true |-> ct, count_false |-> cf]
\* A column type InitializeMetadata has no case for.
StringSpec ==
  [type |-> "STRING", mean |-> 0, number_of_unique_values |-> 0,
   most_frequent_value |-> 0, count_true |-> 0, count_false |-> 0]

SupportedTypes == {"NUMERICAL", "CATEGORICAL", "BOOLEAN"}

\* The column specifications schemas are drawn from.
ColumnSpecs ==
  {NumericalSpec(2), CategoricalSpec(3, 1),
   BooleanSpec(0, 1), BooleanSpec(1, 1), StringSpec}

Schemas(n) == SeqsUpTo(ColumnSpecs, n)

ColumnIdxs(spec) == 0 .. Len(spec) - 1
\* data_spec.columns(i): proto repeated fields are 0-indexed.
SpecColumn(spec, i) == spec[i + 1]

\* Optional column index of a schema.
OptIdx(spec) == {Unset} \cup {Set(i) : i \in ColumnIdxs(spec)}

\* CreateDatasetCacheConfig: label_column_idx, weight_column_idx and
\* remove_zero_weighted_examples are optional fields.
Configs(spec) ==
  [label_column_idx : OptIdx(spec),
   weight_column_idx : OptIdx(spec),
   remove_zero_weighted_examples : {Unset, Set(FALSE), Set(TRUE)}]

\* The "columns" argument: nullptr or a vector of in-range column indices
\* (any order, duplicates allowed).
ColumnInputs(spec) ==
  {Unset} \cup {Set(s) : s \in SeqsUpTo(ColumnIdxs(spec), MaxSubsetLen)}

\* The "columns" arguments of the build specification: nullptr or an
\* ascending vector without duplicates.
BuildColumnInputs(spec) ==
  {Unset} \cup {Set(s) : s \in {t \in SeqsUpTo(ColumnIdxs(spec), Len(spec)) :
                                 \A i \in 1 .. Len(t) - 1 : t[i] < t[i + 1]}}

\* config.remove_zero_weighted_examples(): the field's value, or the proto
\* default when the field is unset.
RemoveZeroWeightedExamples(cfg) ==
  IF Has(cfg.remove_zero_weighted_examples)
  THEN Val(cfg.remove_zero_weighted_examples)
  ELSE FALSE

------------------------------------------------------------------------------
(* GetColumnsOrAll. *)

RECURSIVE Insert(_, _)
Insert(x, sorted) ==
  IF sorted = <<>> THEN <<x>>
  ELSE IF x <= Head(sorted) THEN <<x>> \o sorted
  ELSE <<Head(sorted)>> \o Insert(x, Tail(sorted))

RECURSIVE Sort(_)
\* std::sort of a vector of ints.
Sort(s) == IF s = <<>> THEN <<>> ELSE Insert(Head(s), Sort(Tail(s)))

\* Unique keeping the duplicates.
Unique_KeepAll(s) == s

RECURSIVE Unique(_)
\* erase(std::unique(...)): drops each element equal to its predecessor.
Unique(s) ==
  IF Len(s) <= 1 THEN s
  ELSE IF s[1] = s[2] THEN Unique(Tail(s))
  ELSE <<s[1]>> \o Unique(Tail(s))

Iota(n) == [i \in 1 .. n |-> i - 1]

GetColumnsOrAll(spec, column_idxs, cfg) ==
  IF Has(column_idxs)
  THEN LET c0 == Val(column_idxs)
           c1 == IF Has(cfg.label_column_idx)
                 THEN Append(c0, Val(cfg.label_column_idx)) ELSE c0
           c2 == IF Has(cfg.weight_column_idx)
                 THEN Append(c1, Val(cfg.weight_column_idx)) ELSE c1
       IN Unique(Sort(c2))
  ELSE Iota(Len(spec))

------------------------------------------------------------------------------
(* proto::CacheMetadata and internal::InitializeMetadata. *)

\* A default-constructed CacheMetadata::Column: not available, no variant set.
EmptyColumn ==
  [available |-> FALSE, type_case |-> "TYPE_NOT_SET",
   numerical_replacement |-> 0,
   numerical_num_unique_values |-> 0, numerical_discretized |-> FALSE,
   numerical_num_discretized_values |-> 0,
   categorical_num_values |-> 0, categorical_replacement |-> 0,
   boolean_replacement |-> FALSE]

\* A default-constructed CacheMetadata.
EmptyMetadata ==
  [num_examples |-> 0, num_shards_in_feature_cache |-> 0,
   label_column_idx |-> Unset, weight_column_idx |-> Unset,
   columns |-> <<>>]

\* FillColumn with the BOOLEAN case filling the categorical variant.
FillColumn_WrongVariant(dst, src) ==
  LET avail == [dst EXCEPT !.available = TRUE]
  IN CASE src.type = "NUMERICAL" ->
            [avail EXCEPT !.type_case = "numerical",
                          !.numerical_replacement = src.mean]
       [] src.type = "CATEGORICAL" ->
            [avail EXCEPT !.type_case = "categorical",
                          !.categorical_num_values = src.number_of_unique_values,
                          !.categorical_replacement = src.most_frequent_value]
       [] src.type = "BOOLEAN" ->
            [avail EXCEPT !.type_case = "categorical",
                          !.categorical_replacement = src.count_true]
       [] OTHER -> avail

\* The switch on src.type() of InitializeMetadata: the column entry after
\* set_available(true) and the case of the column's type; a type without a
\* case leaves the variant unset.
FillColumn(dst, src) ==
  LET avail == [dst EXCEPT !.available = TRUE]
  IN CASE src.type = "NUMERICAL" ->
            [avail EXCEPT !.type_case = "numerical",
                          !.numerical_replacement = src.mean]
       [] src.type = "CATEGORICAL" ->
            [avail EXCEPT !.type_case = "categorical",
                          !.categorical_num_values = src.number_of_unique_values,
                          !.categorical_replacement = src.most_frequent_value]
       [] src.type = "BOOLEAN" ->
            [avail EXCEPT !.type_case = "boolean",
                          !.boolean_replacement = (src.count_true >= src.count_false)]
       [] OTHER -> avail

\* Whether the switch has a case for the type (it returns an error otherwise).
TypeSupported_NoBoolean(type) == type \in {"NUMERICAL", "CATEGORICAL"}
TypeSupported(type) == type \in SupportedTypes

RECURSIVE FillColumns(_, _, _)
\* The loop "for (const auto col_idx : columns)": returns the status and the
\* metadata reached; the loop returns at the first column of unsupported type.
FillColumns(spec, cols, md) ==
  IF cols = <<>> THEN [status |-> OkStatus, metadata |-> md]
  ELSE LET col_idx == Head(cols)
           src == SpecColumn(spec, col_idx)
           filled == [md EXCEPT !.columns[col_idx + 1] = FillColumn(@, src)]
       IN IF TypeSupported(src.type)
          THEN FillColumns(spec, Tail(cols), filled)
          ELSE [status |-> InvalidArgumentError("Non supported type"),
                metadata |-> filled]

\* CheckRemoveZero without the test of the weight column's type.
CheckRemoveZero_NoTypeTest(spec, cfg) ==
  IF Has(cfg.remove_zero_weighted_examples) /\ ~Has(cfg.weight_column_idx)
  THEN InvalidArgumentError("remove_zero_weighted_examples without a weight column")
  ELSE OkStatus

\* The check on remove_zero_weighted_examples at the end of InitializeMetadata.
CheckRemoveZero(spec, cfg) ==
  IF Has(cfg.remove_zero_weighted_examples)
  THEN IF ~Has(cfg.weight_column_idx)
       THEN InvalidArgumentError("remove_zero_weighted_examples without a weight column")
       ELSE IF SpecColumn(spec, Val(cfg.weight_column_idx)).type /= "NUMERICAL"
            THEN InvalidArgumentError("remove_zero_weighted_examples only support numerical weighted columns")
            ELSE OkStatus
  ELSE OkStatus

\* metadata->add_columns() once per schema column.
AddColumns(spec, md) ==
  [md EXCEPT !.columns = @ \o [i \in 1 .. Len(spec) |-> EmptyColumn]]

\* Label and weight indices copied from the configuration.
SetLabelAndWeight(cfg, md) ==
  [md EXCEPT !.label_column_idx =
               IF Has(cfg.label_column_idx) THEN cfg.label_column_idx ELSE @,
             !.weight_column_idx =
               IF Has(cfg.weight_column_idx) THEN cfg.weight_column_idx ELSE @]

InitializeMetadata(spec, cols, cfg, md) ==
  LET md1 == AddColumns(spec, SetLabelAndWeight(cfg, md))
      loop == FillColumns(spec, cols, md1)
  IN IF loop.status /= OkStatus THEN loop
     ELSE [status |-> CheckRemoveZero(spec, cfg), metadata |-> loop.metadata]

------------------------------------------------------------------------------
(* The shard plan of SeparateDatasetColumns. *)

\* shards_per_requests: int division, at least 1.
ShardsPerRequests_One(num_input_shards, workers) == 1
ShardsPerRequests(num_input_shards, workers) ==
  Max(1, num_input_shards \div (workers * kNumShardPerWorkers))

\* num_output_shards: the rounded-up quotient.
NumOutputShards_Floor(num_input_shards, per_request) ==
  num_input_shards \div per_request
NumOutputShards_Modulo(num_input_shards, per_request) ==
  (num_input_shards + per_request - 1) % per_request
NumOutputShards_AtLeastOne(num_input_shards, per_request) ==
  Max(1, (num_input_shards + per_request - 1) \div per_request)
NumOutputShards(num_input_shards, per_request) ==
  (num_input_shards + per_request - 1) \div per_request

BeginShardIdx(shard_idx, per_request) == shard_idx * per_request

EndShardIdx(shard_idx, per_request, num_input_shards) ==
  Min(num_input_shards, (shard_idx + 1) * per_request)

\* The shards joined into request.dataset_path:
\* dataset_shards.begin() + begin .. dataset_shards.begin() + end.
ShardRange(shards, begin, end) == SubSeq(shards, begin + 1, end)

\* The worker a request for an output shard is sent to.
WorkerIdx_NextWorker(shard_idx, workers) == (shard_idx + 1) % workers
WorkerIdx(shard_idx, workers) == shard_idx % workers

\* request.column_idx_remove_example_with_zero, set only when zero-weighted
\* examples are to be removed and a weight column is configured.
ZeroWeightColumn(cfg) ==
  IF RemoveZeroWeightedExamples(cfg) /\ Has(cfg.weight_column_idx)
  THEN cfg.weight_column_idx
  ELSE Unset

\* The request of SeparateDatasetColumns for one output shard.
MakeRequest(shard_idx, per_request, num_shards, shards, cols, cfg, workers) ==
  [shard_idx |-> shard_idx,
   dataset_path |-> ShardRange(shards, BeginShardIdx(shard_idx, per_request),
                               EndShardIdx(shard_idx, per_request, Len(shards))),
   columns |-> cols,
   column_idx_remove_example_with_zero |-> ZeroWeightColumn(cfg),
   num_shards |-> num_shards,
   worker_idx |-> WorkerIdx(shard_idx, workers)]

\* The path of the Shard Metadata file of an output shard.
ShardMetadataPath(shard_idx, num_shards) == <<shard_idx, num_shards>>

\* Number of examples in an input shard: the dataset is fixed, input shard j
\* holds j + 1 examples.
ExamplesInShard(shard) == shard + 1

RECURSIVE CountExamples(_)
CountExamples(path) ==
  IF path = <<>> THEN 0
  ELSE ExamplesInShard(Head(path)) + CountExamples(Tail(path))

\* The answer of a worker to a request: the shard index the request carries
\* and the number of examples of the input shards it covers.
WorkerResult(request) ==
  [shard_idx |-> request.shard_idx,
   num_examples |-> CountExamples(request.dataset_path)]

------------------------------------------------------------------------------
(* State of the coordinating flow. *)

NoManager ==
  [created |-> FALSE, parallel_execution_per_worker |-> 0, inflight |-> {}]

\* The manager CreateManager returns.
CreatedManager ==
  [created |-> TRUE,
   parallel_execution_per_worker |-> kNumParallelQueriesPerWorker,
   inflight |-> {}]

NoConfig ==
  [label_column_idx |-> Unset, weight_column_idx |-> Unset,
   remove_zero_weighted_examples |-> Unset]

EmptyDisk == [root |-> Unset, shards |-> <<>>, dirs |-> {}]

\* Outcomes of an external call: TRUE is success. Calls fail only while the
\* environment is faulty.
Calls == IF env = "faulty" THEN {TRUE, FALSE} ELSE {TRUE}

\* The argument and the result of MetaDataReport, which no build touches.
reportVars == <<features, report>>
NoReport == features = Unset /\ report = <<>>

\* What no step of a build changes.
fixedVars == <<data_spec, dataset_shards, num_workers, env, reportVars>>
diskVars == <<dirs, rootFile, shardFiles>>
argVars == <<config, columns>>
histVars == <<start, requests>>
loopVars == <<shards_per_requests, num_output_shards, output_shard_idx,
              pending_requests, result_idx, result>>

\* The arguments and locals of an invocation that is not running.
LocalsGone ==
  /\ config' = NoConfig
  /\ columns' = Unset
  /\ manager' = NoManager
  /\ effective_columns' = <<>>
  /\ metadata' = EmptyMetadata
  /\ shards_per_requests' = 0
  /\ num_output_shards' = 0
  /\ output_shard_idx' = 0
  /\ pending_requests' = 0
  /\ result_idx' = 0
  /\ result' = Unset

\* "return s": the invocation ends, its manager and locals are destroyed.
Return(s) ==
  /\ pc' = "returned"
  /\ status' = s
  /\ LocalsGone
  /\ UNCHANGED <<fixedVars, histVars>>

Running == pc \notin {"idle", "returned", "crashed"}

\* "return s" inside SeparateDatasetColumns: the phase ends with an error,
\* its locals are gone; the caller, its manager and the metadata it passed
\* are as the phase left them.
SeparateReturn(s) ==
  /\ pc' = "separate_failed"
  /\ status' = s
  /\ shards_per_requests' = 0
  /\ num_output_shards' = 0
  /\ output_shard_idx' = 0
  /\ pending_requests' = 0
  /\ result_idx' = 0
  /\ result' = Unset
  /\ UNCHANGED <<fixedVars, histVars, argVars, manager, effective_columns,
                 metadata>>

------------------------------------------------------------------------------
(* CreateDatasetCacheFromShardedFiles, step by step. *)

\* A caller invokes the build on the cache directory.
Invoke ==
  /\ ~Running
  /\ \E cfg \in Configs(data_spec), cols \in BuildColumnInputs(data_spec) :
       /\ config' = cfg
       /\ columns' = cols
  /\ pc' = "check_existing"
  /\ status' = NoStatus
  /\ manager' = NoManager
  /\ effective_columns' = <<>>
  /\ metadata' = EmptyMetadata
  /\ shards_per_requests' = 0
  /\ num_output_shards' = 0
  /\ output_shard_idx' = 0
  /\ pending_requests' = 0
  /\ result_idx' = 0
  /\ result' = Unset
  /\ start' = [root |-> rootFile, shards |-> shardFiles, dirs |-> dirs]
  /\ requests' = <<>>
  /\ UNCHANGED <<fixedVars, diskVars>>

\* "already_exist": the root Cache Metadata file exists.
RootExists_Never(file) == FALSE
RootExists(file) == Has(file)

\* "Check if the cache is already there."
CheckExisting ==
  /\ pc = "check_existing"
  /\ \E exists_ok \in Calls, read_ok \in Calls :
       IF ~exists_ok THEN Return(ExternalError("FileExists"))
       ELSE IF RootExists(rootFile)
       THEN IF ~read_ok THEN Return(ExternalError("GetBinaryProto"))
            ELSE Return(OkStatus)
       ELSE /\ pc' = "create_dirs"
            /\ UNCHANGED <<fixedVars, argVars, histVars, status, manager,
                           effective_columns, metadata, loopVars>>
  /\ UNCHANGED diskVars

DirOrder == <<"cache", "indexed", "raw">>
AllDirs == {DirOrder[i] : i \in 1 .. Len(DirOrder)}

\* "Create the directory structure": three RecursivelyCreateDir calls, the
\* first n of which succeed.
CreateDirs ==
  /\ pc = "create_dirs"
  /\ \E n \in (IF env = "faulty" THEN 0 .. Len(DirOrder) ELSE {Len(DirOrder)}) :
       /\ dirs' = dirs \cup {DirOrder[i] : i \in 1 .. n}
       /\ IF n < Len(DirOrder) THEN Return(ExternalError("RecursivelyCreateDir"))
          ELSE /\ pc' = "create_manager"
               /\ UNCHANGED <<fixedVars, argVars, histVars, status, manager,
                              effective_columns, metadata, loopVars>>
  /\ UNCHANGED <<rootFile, shardFiles>>

\* "Initialize the distribution manager."
CreateManager ==
  /\ pc = "create_manager"
  /\ \E ok \in Calls :
       IF ~ok THEN Return(ExternalError("CreateManager"))
       ELSE /\ manager' = CreatedManager
            /\ pc' = "init_metadata"
            /\ UNCHANGED <<fixedVars, argVars, histVars, status,
                           effective_columns, metadata, loopVars>>
  /\ UNCHANGED diskVars

\* "List the columns in the dataset" and InitializeMetadata.
InitMetadata ==
  /\ pc = "init_metadata"
  /\ LET cols == GetColumnsOrAll(data_spec, columns, config)
         r == InitializeMetadata(data_spec, cols, config, metadata)
     IN IF r.status /= OkStatus THEN Return(r.status)
        ELSE /\ effective_columns' = cols
             /\ metadata' = r.metadata
             /\ pc' = "list_shards"
             /\ UNCHANGED <<fixedVars, argVars, histVars, status, manager, loopVars>>
  /\ UNCHANGED diskVars

\* "List the shards in the input dataset."
ListShards ==
  /\ pc = "list_shards"
  /\ \E ok \in Calls :
       IF ~ok THEN Return(ExternalError("ListShards"))
       ELSE /\ pc' = "separate"
            /\ UNCHANGED <<fixedVars, argVars, histVars, status, manager,
                           effective_columns, metadata, loopVars>>
  /\ UNCHANGED diskVars

\* The condition of the collect loop, "result_idx < pending_requests".
MoreResults_OffByOne(idx, pending) == idx <= pending
MoreResults_StopEarly(idx, pending) == idx < pending - 1
MoreResults(idx, pending) == idx < pending

\* Position after the dispatch loop body with counters idx and pending.
AfterDispatch(idx, num_shards, pending) ==
  IF idx < num_shards THEN "dispatch"
  ELSE IF MoreResults(0, pending) THEN "collect" ELSE "restore"

\* "Check if the job was already executed": the Shard Metadata file exists.
AlreadyExist_Never(files, path) == FALSE
AlreadyExist(files, path) == path \in DOMAIN files

\* cache_metadata->set_num_examples(cache_metadata->num_examples() + n).
FoldExamples_Overwrite(md, n) == [md EXCEPT !.num_examples = n]
FoldExamples_FreshMetadata(md, n) ==
  [EmptyMetadata EXCEPT !.num_examples = md.num_examples + n,
                        !.num_shards_in_feature_cache = md.num_shards_in_feature_cache]
FoldExamples(md, n) == [md EXCEPT !.num_examples = @ + n]

\* SeparateDatasetColumns up to the dispatch loop: the plan and the
\* narrowing of the per-worker concurrency.
SeparateBegin ==
  /\ pc = "separate"
  /\ LET per_request == ShardsPerRequests(Len(dataset_shards), num_workers)
         num_shards == NumOutputShards(Len(dataset_shards), per_request)
     IN \E ok \in Calls :
          IF ~ok THEN SeparateReturn(ExternalError("SetParallelExecutionPerWorker"))
          ELSE /\ manager' = [manager EXCEPT !.parallel_execution_per_worker = 1]
               /\ metadata' = [metadata EXCEPT
                                 !.num_examples = 0,
                                 !.num_shards_in_feature_cache = num_shards]
               /\ shards_per_requests' = per_request
               /\ num_output_shards' = num_shards
               /\ output_shard_idx' = 0
               /\ pending_requests' = 0
               /\ result_idx' = 0
               /\ result' = Unset
               /\ pc' = AfterDispatch(0, num_shards, 0)
               /\ UNCHANGED <<fixedVars, argVars, histVars, status, effective_columns>>
  /\ UNCHANGED diskVars

\* One iteration of the dispatch loop.
Dispatch ==
  /\ pc = "dispatch"
  /\ LET metadata_path == ShardMetadataPath(output_shard_idx, num_output_shards)
         request == MakeRequest(output_shard_idx, shards_per_requests,
                                num_output_shards, dataset_shards,
                                effective_columns, config, num_workers)
     IN \E exists_ok \in Calls, read_ok \in Calls, submit_ok \in Calls :
          IF ~exists_ok THEN SeparateReturn(ExternalError("FileExists"))
          ELSE IF AlreadyExist(shardFiles, metadata_path)
          THEN IF ~read_ok THEN SeparateReturn(ExternalError("GetBinaryProto"))
               ELSE /\ metadata' = FoldExamples(metadata, shardFiles[metadata_path])
                    /\ output_shard_idx' = output_shard_idx + 1
                    /\ pc' = AfterDispatch(output_shard_idx + 1, num_output_shards,
                                           pending_requests)
                    /\ UNCHANGED <<fixedVars, argVars, histVars, status, manager,
                                   effective_columns, shards_per_requests,
                                   num_output_shards, pending_requests, result_idx,
                                   result>>
          ELSE IF ~submit_ok THEN SeparateReturn(ExternalError("AsynchronousProtoRequest"))
               ELSE /\ manager' = [manager EXCEPT !.inflight = @ \cup {request}]
                    /\ requests' = Append(requests, request)
                    /\ pending_requests' = pending_requests + 1
                    /\ output_shard_idx' = output_shard_idx + 1
                    /\ pc' = AfterDispatch(output_shard_idx + 1, num_output_shards,
                                           pending_requests + 1)
                    /\ UNCHANGED <<fixedVars, argVars, start, status, metadata,
                                   effective_columns, shards_per_requests,
                                   num_output_shards, result_idx, result>>
  /\ UNCHANGED diskVars

\* The shard index that keys the file written for a result collected at
\* position idx of the collect loop: the one the result carries.
ResultShardIdx_ArrivalPosition(answer, idx) == idx
ResultShardIdx(answer, idx) == answer.shard_idx

\* shardFiles with the file at path (over)written.
WriteFile_OnlyThisFile(files, path, num_examples) ==
  [p \in {path} |-> num_examples]
WriteFile(files, path, num_examples) ==
  [p \in DOMAIN files \cup {path} |->
     IF p = path THEN num_examples ELSE files[p]]

\* The two statements that end the body of the collect loop, in the order
\* of the code: the Shard Metadata file is written ("persist"), then its
\* count is added to the running total ("fold").
CollectOrder_FoldFirst == <<"fold", "persist">>
CollectOrder == <<"persist", "fold">>

\* Position after the statement "step" of the body of the collect loop.
AfterCollectStep(step, idx, pending) ==
  IF step = CollectOrder[1] THEN CollectOrder[2]
  ELSE IF MoreResults(idx + 1, pending) THEN "collect" ELSE "restore"

\* The statement "step" is done: the next statement of the body follows, or
\* the body is over ("result_idx++", the answer goes out of scope).
EndCollectStep(step) ==
  /\ pc' = AfterCollectStep(step, result_idx, pending_requests)
  /\ result_idx' = IF step = CollectOrder[2] THEN result_idx + 1 ELSE result_idx
  /\ result' = IF step = CollectOrder[2] THEN Unset ELSE result

\* The collect loop waits for the next answer: the answer to any of the
\* requests still in flight.
Collect ==
  /\ pc = "collect"
  /\ \E next_ok \in Calls :
       IF ~next_ok THEN SeparateReturn(ExternalError("NextAsynchronousProtoAnswer"))
       ELSE \E request \in manager.inflight :
              /\ result' = Set(WorkerResult(request))
              /\ manager' = [manager EXCEPT !.inflight = @ \ {request}]
              /\ pc' = CollectOrder[1]
              /\ UNCHANGED <<fixedVars, argVars, histVars, status,
                             effective_columns, metadata, shards_per_requests,
                             num_output_shards, output_shard_idx,
                             pending_requests, result_idx>>
  /\ UNCHANGED diskVars

\* "Save the meta-data information": the Shard Metadata file of the answer.
PersistResult ==
  /\ pc = "persist"
  /\ LET metadata_path ==
           ShardMetadataPath(ResultShardIdx(Val(result), result_idx),
                             num_output_shards)
     IN \E write_ok \in Calls :
          IF ~write_ok
          THEN /\ SeparateReturn(ExternalError("SetBinaryProto"))
               /\ UNCHANGED shardFiles
          ELSE /\ shardFiles' = WriteFile(shardFiles, metadata_path,
                                          Val(result).num_examples)
               /\ EndCollectStep("persist")
               /\ UNCHANGED <<fixedVars, argVars, histVars, status, manager,
                              effective_columns, metadata, shards_per_requests,
                              num_output_shards, output_shard_idx,
                              pending_requests>>
  /\ UNCHANGED <<dirs, rootFile>>

\* The count of the answer is added to the running total.
FoldResult ==
  /\ pc = "fold"
  /\ metadata' = FoldExamples(metadata, Val(result).num_examples)
  /\ EndCollectStep("fold")
  /\ UNCHANGED <<fixedVars, diskVars, argVars, histVars, status, manager,
                 effective_columns, shards_per_requests, num_output_shards,
                 output_shard_idx, pending_requests>>

\* The end of SeparateDatasetColumns: the per-worker concurrency is set back.
Restore ==
  /\ pc = "restore"
  /\ \E ok \in Calls :
       IF ~ok THEN SeparateReturn(ExternalError("SetParallelExecutionPerWorker"))
       ELSE /\ manager' = [manager EXCEPT
                             !.parallel_execution_per_worker = kNumParallelQueriesPerWorker]
            /\ pc' = "write_root"
            /\ UNCHANGED <<fixedVars, argVars, histVars, status,
                           effective_columns, metadata, loopVars>>
  /\ UNCHANGED diskVars

\* SeparateFailed starting the separation phase again instead of returning.
SeparateFailed_Retry ==
  /\ pc = "separate_failed"
  /\ pc' = "separate"
  /\ status' = NoStatus
  /\ UNCHANGED <<fixedVars, diskVars, argVars, histVars, manager,
                 effective_columns, metadata, loopVars>>

\* RETURN_IF_ERROR(SeparateDatasetColumns(...)): the build returns the error
\* of the separation phase.
SeparateFailed ==
  /\ pc = "separate_failed"
  /\ Return(status)
  /\ UNCHANGED diskVars

\* "Export the cache header."
WriteRoot ==
  /\ pc = "write_root"
  /\ \E ok \in Calls :
       IF ~ok
       THEN /\ Return(ExternalError("SetBinaryProto"))
            /\ UNCHANGED rootFile
       ELSE /\ rootFile' = Set(metadata)
            /\ pc' = "manager_done"
            /\ UNCHANGED <<fixedVars, argVars, histVars, status, manager,
                           effective_columns, metadata, loopVars>>
  /\ UNCHANGED <<dirs, shardFiles>>

\* distribute_manager->Done() and the final return.
ManagerDone ==
  /\ pc = "manager_done"
  /\ \E ok \in Calls :
       IF ~ok THEN Return(ExternalError("Done")) ELSE Return(OkStatus)
  /\ UNCHANGED diskVars

\* The process running the build dies: memory is lost, the disk stays.
Crash ==
  /\ Running
  /\ env = "faulty"
  /\ pc' = "crashed"
  /\ status' = NoStatus
  /\ LocalsGone
  /\ UNCHANGED <<fixedVars, histVars, diskVars>>

BuildStep ==
  \/ CheckExisting \/ CreateDirs \/ CreateManager \/ InitMetadata \/ ListShards
  \/ SeparateBegin \/ Dispatch \/ Collect \/ PersistResult \/ FoldResult
  \/ Restore \/ WriteRoot \/ ManagerDone

------------------------------------------------------------------------------
(* The build specification: any sequence of invocations on one cache       *)
(* directory, starting from an empty directory, in an environment where    *)
(* external calls may fail and the process may die.                        *)

\* The schemas of the build specification.
BuildSchemas ==
  {<<NumericalSpec(2), CategoricalSpec(3, 1)>>, <<NumericalSpec(2), StringSpec>>}

NotRunning ==
  /\ pc = "idle"
  /\ status = NoStatus
  /\ config = NoConfig
  /\ columns = Unset
  /\ effective_columns = <<>>
  /\ metadata = EmptyMetadata
  /\ manager = NoManager
  /\ shards_per_requests = 0
  /\ num_output_shards = 0
  /\ output_shard_idx = 0
  /\ pending_requests = 0
  /\ result_idx = 0
  /\ result = Unset
  /\ start = EmptyDisk
  /\ requests = <<>>
  /\ NoReport

Init ==
  /\ data_spec \in BuildSchemas
  /\ dataset_shards \in {Iota(n) : n \in 0 .. MaxShards}
  /\ num_workers \in 1 .. MaxWorkers
  /\ env = "faulty"
  /\ dirs = {}
  /\ rootFile = Unset
  /\ shardFiles = <<>>
  /\ NotRunning

Next == Invoke \/ BuildStep \/ SeparateFailed \/ Crash

Spec == Init /\ [][Next]_vars

------------------------------------------------------------------------------
(* The completion specification: invocations in an environment where no    *)
(* external call fails and no process dies, on a cache directory left by   *)
(* earlier builds with any subset of the Shard Metadata files, under the   *)
(* scheduling the code has: a running invocation takes its next step (the  *)
(* coordinating flow is sequential code, and the worker pool answers every *)
(* request in flight).                                                     *)

LiveSchema == <<NumericalSpec(2)>>

\* The Shard Metadata files earlier builds leave for the output shards in S.
FilesOf(S, shards, workers) ==
  LET per_request == ShardsPerRequests(Len(shards), workers)
      num_shards == NumOutputShards(Len(shards), per_request)
  IN [p \in {ShardMetadataPath(i, num_shards) : i \in S} |->
        WorkerResult(MakeRequest(p[1], per_request, num_shards, shards,
                                 <<>>, NoConfig, workers)).num_examples]

LiveInit ==
  /\ data_spec = LiveSchema
  /\ dataset_shards \in {Iota(n) : n \in 0 .. MaxShards}
  /\ num_workers \in 1 .. MaxWorkers
  /\ env = "reliable"
  /\ rootFile = Unset
  /\ \E S \in SUBSET (0 .. NumOutputShards(Len(dataset_shards),
                        ShardsPerRequests(Len(dataset_shards), num_workers)) - 1) :
       shardFiles = FilesOf(S, dataset_shards, num_workers)
  /\ dirs = IF shardFiles = <<>> THEN {} ELSE AllDirs
  /\ NotRunning

LiveNext == Invoke \/ BuildStep

SpecLive == LiveInit /\ [][LiveNext]_vars /\ WF_vars(BuildStep)

------------------------------------------------------------------------------
(* The metadata-builder specification: GetColumnsOrAll and                 *)
(* InitializeMetadata on every schema, configuration and column argument   *)
(* within the bounds.                                                      *)

MetaInit ==
  /\ data_spec \in Schemas(MaxCols)
  /\ config \in Configs(data_spec)
  /\ columns \in ColumnInputs(data_spec)
  /\ dataset_shards = <<>>
  /\ num_workers = 1
  /\ env = "reliable"
  /\ dirs = AllDirs
  /\ rootFile = Unset
  /\ shardFiles = <<>>
  /\ pc = "init_metadata"
  /\ status = NoStatus
  /\ effective_columns = <<>>
  /\ metadata = EmptyMetadata
  /\ manager = CreatedManager
  /\ shards_per_requests = 0
  /\ num_output_shards = 0
  /\ output_shard_idx = 0
  /\ pending_requests = 0
  /\ result_idx = 0
  /\ result = Unset
  /\ start = [root |-> Unset, shards |-> <<>>, dirs |-> dirs]
  /\ requests = <<>>
  /\ NoReport

MetaNext == InitMetadata

SpecMeta == MetaInit /\ [][MetaNext]_vars

------------------------------------------------------------------------------
(* The planner specification: the plan and the dispatch loop of            *)
(* SeparateDatasetColumns on an empty cache directory, for every number of *)
(* input shards and workers within the bounds.                             *)

PlanSchema == <<NumericalSpec(2)>>

PlanInit ==
  /\ data_spec = PlanSchema
  /\ config = NoConfig
  /\ columns = Unset
  /\ dataset_shards \in {Iota(n) : n \in 0 .. MaxPlanShards}
  /\ num_workers \in 1 .. MaxPlanWorkers
  /\ env = "reliable"
  /\ dirs = AllDirs
  /\ rootFile = Unset
  /\ shardFiles = <<>>
  /\ pc = "separate"
  /\ status = NoStatus
  /\ effective_columns = GetColumnsOrAll(PlanSchema, Unset, NoConfig)
  /\ metadata = InitializeMetadata(PlanSchema, effective_columns, NoConfig,
                                   EmptyMetadata).metadata
  /\ manager = CreatedManager
  /\ shards_per_requests = 0
  /\ num_output_shards = 0
  /\ output_shard_idx = 0
  /\ pending_requests = 0
  /\ result_idx = 0
  /\ result = Unset
  /\ start = [root |-> Unset, shards |-> <<>>, dirs |-> dirs]
  /\ requests = <<>>
  /\ NoReport

PlanNext == SeparateBegin \/ Dispatch

SpecPlan == PlanInit /\ [][PlanNext]_vars

------------------------------------------------------------------------------
(* The column specification: from the listing of the columns to the end of  *)
(* the dispatch loop, for one input shard, on every schema, configuration   *)
(* and column argument within the bounds.                                   *)

ColumnsInit ==
  /\ data_spec \in Schemas(MaxCols)
  /\ config \in Configs(data_spec)
  /\ columns \in ColumnInputs(data_spec)
  /\ dataset_shards = Iota(1)
  /\ num_workers = 1
  /\ env = "reliable"
  /\ dirs = AllDirs
  /\ rootFile = Unset
  /\ shardFiles = <<>>
  /\ pc = "init_metadata"
  /\ status = NoStatus
  /\ effective_columns = <<>>
  /\ metadata = EmptyMetadata
  /\ manager = CreatedManager
  /\ shards_per_requests = 0
  /\ num_output_shards = 0
  /\ output_shard_idx = 0
  /\ pending_requests = 0
  /\ result_idx = 0
  /\ result = Unset
  /\ start = [root |-> Unset, shards |-> <<>>, dirs |-> dirs]
  /\ requests = <<>>
  /\ NoReport

ColumnsNext == InitMetadata \/ ListShards \/ SeparateBegin \/ Dispatch

SpecColumns == ColumnsInit /\ [][ColumnsNext]_vars

------------------------------------------------------------------------------
(* MetaDataReport: the text of the report as a sequence of lines, a line as *)
(* a sequence of pieces: the literal pieces of the format strings and the   *)
(* characters of each formatted number.                                     *)

\* CacheMetadata::Column entries as later stages of the cache creation leave
\* them: a numerical column with its number of unique values and its
\* discretization, a categorical column.
NumericalColumn(unique_values, discretized, discretized_values) ==
  [EmptyColumn EXCEPT !.available = TRUE, !.type_case = "numerical",
                      !.numerical_num_unique_values = unique_values,
                      !.numerical_discretized = discretized,
                      !.numerical_num_discretized_values = discretized_values]
CategoricalColumn ==
  [EmptyColumn EXCEPT !.available = TRUE, !.type_case = "categorical",
                      !.categorical_num_values = 3]

\* column.type_case() as the integer column_type_to_string switches on.
TypeCaseNumber(type_case) ==
  CASE type_case = "numerical" -> 2
    [] type_case = "categorical" -> 3
    [] type_case = "boolean" -> 4
    [] OTHER -> 0

Digit(d) == <<"0", "1", "2", "3", "4", "5", "6", "7", "8", "9">>[d + 1]

RECURSIVE IntText(_)
\* An integer argument of Substitute: its decimal digits.
IntText(n) ==
  IF n < 10 THEN <<Digit(n)>> ELSE Append(IntText(n \div 10), Digit(n % 10))

RECURSIVE Pow10(_)
Pow10(k) == IF k = 0 THEN 1 ELSE 10 * Pow10(k - 1)

RECURSIVE FirstDigitPos(_, _, _)
\* For 0 < a < b: the position after the point of the first non-zero digit
\* of a / b, searched from position k.
FirstDigitPos(a, b, k) ==
  IF a * Pow10(k) >= b THEN k ELSE FirstDigitPos(a, b, k + 1)

\* Number of digits after the point that six significant digits of a / b
\* leave (a > 0, b > 0, a / b < 10^6).
SixDigitsDecimals(a, b) ==
  IF a >= b THEN 6 - Len(IntText(a \div b)) ELSE 5 + FirstDigitPos(a, b, 1)

RECURSIVE StripZeros(_)
\* Trailing zeros of the fraction are not printed.
StripZeros(s) ==
  IF s /= <<>> /\ s[Len(s)] = "0" THEN StripZeros(SubSeq(s, 1, Len(s) - 1)) ELSE s

\* n as exactly p digits, zero-padded on the left (n < 10^p), or nothing
\* when p = 0.
PadText(n, p) ==
  IF p = 0 THEN <<>>
  ELSE LET digits == IntText(n)
       IN [i \in 1 .. p - Len(digits) |-> "0"] \o digits

\* FloatText keeping two digits after the point.
FloatText_TwoDecimals(a, b) ==
  IF b = 0 THEN IF a = 0 THEN <<"n", "a", "n">> ELSE <<"i", "n", "f">>
  ELSE IF a = 0 THEN <<"0">>
  ELSE LET scaled == (2 * a * 100 + b) \div (2 * b)
           fraction == StripZeros(PadText(scaled % 100, 2))
       IN IntText(scaled \div 100)
            \o (IF fraction = <<>> THEN <<>> ELSE <<".">> \o fraction)

\* A float argument of Substitute, the quotient static_cast<float>(a) / b:
\* six significant digits, rounded to nearest, without trailing zeros and
\* without the point when no digit follows it; 0 / 0 is not a number. (For
\* the quotients of the model the float quotient and the exact quotient have
\* the same six digits.)
FloatText(a, b) ==
  IF b = 0 THEN IF a = 0 THEN <<"n", "a", "n">> ELSE <<"i", "n", "f">>
  ELSE IF a = 0 THEN <<"0">>
  ELSE LET p == SixDigitsDecimals(a, b)
           scaled == (2 * a * Pow10(p) + b) \div (2 * b)
           fraction == StripZeros(PadText(scaled % Pow10(p), p))
       IN IntText(scaled \div Pow10(p))
            \o (IF fraction = <<>> THEN <<>> ELSE <<".">> \o fraction)

\* "List the feature used to compute the statistics."
EffectiveFeatures(md, feats) ==
  IF Has(feats) THEN Val(feats) ELSE Iota(Len(md.columns))

NoStats ==
  [count_by_types |-> <<>>, sum_num_unique_values |-> 0, num_numerical |-> 0,
   num_numerical_discretized |-> 0, num_numerical_less_100_values |-> 0,
   num_numerical_less_16k_values |-> 0, sum_num_discretized_values |-> 0]

\* count_by_types[key]++ on a hash map: a missing key starts at 0.
Increment(counts, key) ==
  [k \in DOMAIN counts \cup {key} |->
     IF k = key THEN (IF key \in DOMAIN counts THEN counts[key] ELSE 0) + 1
     ELSE counts[k]]

\* The body of the loop over the features, for one feature.
AddFeature(stats, column) ==
  LET counted == [stats EXCEPT !.count_by_types =
                    Increment(@, TypeCaseNumber(column.type_case))]
  IN IF column.type_case = "numerical"
     THEN [counted EXCEPT
             !.sum_num_unique_values = @ + column.numerical_num_unique_values,
             !.num_numerical_discretized =
                IF column.numerical_discretized THEN @ + 1 ELSE @,
             !.sum_num_discretized_values =
                IF column.numerical_discretized
                THEN @ + column.numerical_num_discretized_values ELSE @,
             !.num_numerical_less_100_values =
                IF column.numerical_num_unique_values <= 100 THEN @ + 1 ELSE @,
             !.num_numerical_less_16k_values =
                IF column.numerical_num_unique_values <= 16000 THEN @ + 1 ELSE @,
             !.num_numerical = @ + 1]
     ELSE counted

RECURSIVE FeatureStats(_, _, _)
\* The loop "for (const auto feature : effective_features)".
FeatureStats(md, feats, stats) ==
  IF feats = <<>> THEN stats
  ELSE FeatureStats(md, Tail(feats),
                    AddFeature(stats, md.columns[Head(feats) + 1]))


\* column_type_to_string.
ColumnTypeToString(type) ==
  CASE type = 2 -> <<"NUMERICAL">>
    [] type = 3 -> <<"CATEGORICAL">>
    [] type = 4 -> <<"BOOLEAN">>
    [] OTHER -> <<"Unknown type ">> \o IntText(type)

\* The orders in which a hash map with the keys S is iterated.
IterationOrders(S) ==
  {s \in SeqsUpTo(S, Cardinality(S)) :
     Len(s) = Cardinality(S) /\ {s[i] : i \in 1 .. Len(s)} = S}

\* One line per entry of count_by_types, in iteration order.
TypeLines(counts, order) ==
  [i \in 1 .. Len(order) |->
     <<"\t column-type: ">> \o ColumnTypeToString(order[i])
       \o <<" count: ">> \o IntText(counts[order[i]])]

\* The section "if (num_numerical > 0)".
NumericalLines(stats) ==
  IF stats.num_numerical > 0
  THEN << <<"Numerical columns:">>,
          <<"\tMean number of unique values: ">>
            \o IntText(stats.sum_num_unique_values \div stats.num_numerical),
          <<"\tRatio of discretized numerical columns: ">>
            \o FloatText(stats.num_numerical_discretized, stats.num_numerical)
            \o <<" (">> \o IntText(stats.num_numerical_discretized) \o <<")">>,
          <<"\tRatio of numerical columns with <=100 values: ">>
            \o FloatText(stats.num_numerical_less_100_values, stats.num_numerical)
            \o <<" (">> \o IntText(stats.num_numerical_less_100_values) \o <<")">>,
          <<"\tRatio of numerical columns with <=16k values: ">>
            \o FloatText(stats.num_numerical_less_16k_values, stats.num_numerical)
            \o <<" (">> \o IntText(stats.num_numerical_less_16k_values) \o <<")">>,
          <<"\tMean number of unique values for discretized columns: ">>
            \o FloatText(stats.sum_num_discretized_values,
                         stats.num_numerical_discretized) >>
  ELSE <<>>

\* The report for the metadata and the features, with count_by_types
\* iterated in the given order.
MetaDataReport(md, feats, order) ==
  LET effective_features == EffectiveFeatures(md, feats)
      stats == FeatureStats(md, effective_features, NoStats)
  IN << <<"Number of columns: ">> \o IntText(Len(md.columns)),
        <<"Number of examples: ">> \o IntText(md.num_examples),
        <<"Statistics on ">> \o IntText(Len(effective_features))
          \o <<" / ">> \o IntText(Len(md.columns)) \o <<" features">>,
        <<"Columns by type">> >>
     \o TypeLines(stats.count_by_types, order)
     \o NumericalLines(stats)

\* A caller asks for the report of the metadata.
Report ==
  /\ pc = "report"
  /\ \E order \in IterationOrders(
         DOMAIN FeatureStats(metadata, EffectiveFeatures(metadata, features),
                             NoStats).count_by_types) :
       report' = MetaDataReport(metadata, features, order)
  /\ pc' = "reported"
  /\ UNCHANGED <<data_spec, dataset_shards, num_workers, env, features,
                 diskVars, argVars, histVars, loopVars, status, manager,
                 effective_columns, metadata>>

------------------------------------------------------------------------------
(* The report specification: MetaDataReport on every Cache Metadata and     *)
(* every in-range feature vector within the bounds.                         *)

\* The column entries the metadata of the report specification is made of.
ReportColumns ==
  {NumericalColumn(9, FALSE, 0), NumericalColumn(50, FALSE, 0),
   NumericalColumn(150, FALSE, 0), NumericalColumn(150, TRUE, 8),
   CategoricalColumn, EmptyColumn}

ReportInit ==
  /\ \E cols \in SeqsUpTo(ReportColumns, MaxReportCols), n \in {0, 12} :
       metadata = [EmptyMetadata EXCEPT !.columns = cols, !.num_examples = n]
  /\ features \in {Unset} \cup
       {Set(s) : s \in SeqsUpTo(0 .. Len(metadata.columns) - 1, MaxReportFeatures)}
  /\ report = <<>>
  /\ pc = "report"
  /\ data_spec = <<>>
  /\ dataset_shards = <<>>
  /\ num_workers = 1
  /\ env = "reliable"
  /\ dirs = {}
  /\ rootFile = Unset
  /\ shardFiles = <<>>
  /\ status = NoStatus
  /\ config = NoConfig
  /\ columns = Unset
  /\ effective_columns = <<>>
  /\ manager = NoManager
  /\ shards_per_requests = 0
  /\ num_output_shards = 0
  /\ output_shard_idx = 0
  /\ pending_requests = 0
  /\ result_idx = 0
  /\ result = Unset
  /\ start = EmptyDisk
  /\ requests = <<>>

ReportNext == Report

SpecReport == ReportInit /\ [][ReportNext]_vars

------------------------------------------------------------------------------
(* Definitions the properties are stated with. *)

Range(s) == {s[i] : i \in 1 .. Len(s)}

\* The columns a build selects: the explicit subset with the configured label
\* and weight columns, or every schema column when no subset is given.
SelectedColumns(spec, cols, cfg) ==
  IF Has(cols)
  THEN Range(Val(cols)) \cup Range(cfg.label_column_idx)
                        \cup Range(cfg.weight_column_idx)
  ELSE ColumnIdxs(spec)

VariantOf(type) ==
  CASE type = "NUMERICAL" -> "numerical"
    [] type = "CATEGORICAL" -> "categorical"
    [] type = "BOOLEAN" -> "boolean"
    [] OTHER -> "TYPE_NOT_SET"

SelectsUnsupported(spec, cols, cfg) ==
  \E i \in SelectedColumns(spec, cols, cfg) :
     SpecColumn(spec, i).type \notin {"NUMERICAL", "CATEGORICAL", "BOOLEAN"}

\* remove_zero_weighted_examples = true with no weight column, or with a
\* weight column that is not NUMERICAL.
BadWeightConfig(spec, cfg) ==
  /\ cfg.remove_zero_weighted_examples = Set(TRUE)
  /\ \/ ~Has(cfg.weight_column_idx)
     \/ SpecColumn(spec, Val(cfg.weight_column_idx)).type /= "NUMERICAL"

ConfigMessages ==
  {"remove_zero_weighted_examples without a weight column",
   "remove_zero_weighted_examples only support numerical weighted columns"}

\* The Shard Metadata paths of a cache of n output shards.
ShardPaths(n) == {ShardMetadataPath(i, n) : i \in 0 .. n - 1}

\* Number of examples of the whole dataset.
DatasetExamples == CountExamples(dataset_shards)

RECURSIVE Flatten(_)
Flatten(ss) == IF ss = <<>> THEN <<>> ELSE Head(ss) \o Flatten(Tail(ss))

\* The invocation began with no root Cache Metadata file and has written it.
WroteRoot == ~Has(start.root) /\ Has(rootFile)

\* The invocation returned success after a full build (no short-circuit).
BuiltOk == pc = "returned" /\ status = OkStatus /\ ~Has(start.root)

------------------------------------------------------------------------------
(* Properties of the shard plan (specification SpecPlan). *)

\* The input range of job k - 1 as the claim states it:
\* [(k-1) * per_job, min(Nin, k * per_job)).
ClaimedRange(k, per_job, shards) ==
  LET b == (k - 1) * per_job
      e == Min(Len(shards), k * per_job)
  IN [j \in 1 .. (e - b) |-> shards[b + j]]

\* C5: shards_per_job = max(1, floor(Nin / (W*K))), num_output_shards =
\* ceil(Nin / shards_per_job); the request of job i covers the input range
\* [i*shards_per_job, min(Nin, (i+1)*shards_per_job)), no job's range is
\* empty, and once the dispatch loop is over the ranges of the jobs, in
\* order, are exactly the input shards, each once.
ShardPlanPartitions ==
  pc /= "separate" =>
    LET nin == Len(dataset_shards)
        wk == num_workers * kNumShardPerWorkers
    IN /\ shards_per_requests >= 1
       /\ nin < wk => shards_per_requests = 1
       /\ nin >= wk => /\ shards_per_requests * wk <= nin
                       /\ nin < (shards_per_requests + 1) * wk
       /\ num_output_shards >= 0
       /\ num_output_shards * shards_per_requests >= nin
       /\ num_output_shards > 0 =>
            (num_output_shards - 1) * shards_per_requests < nin
       /\ \A k \in 1 .. Len(requests) :
            /\ requests[k].shard_idx = k - 1
            /\ requests[k].dataset_path =
                 ClaimedRange(k, shards_per_requests, dataset_shards)
            /\ requests[k].dataset_path /= <<>>
       /\ pc /= "dispatch" =>
            /\ Len(requests) = num_output_shards
            /\ Flatten([k \in 1 .. Len(requests) |-> requests[k].dataset_path])
                 = dataset_shards

\* C5 witness: Nin = 23, W = 4 is planned as 23 jobs of one input shard, all
\* dispatched.
ShardPlanScenarioA ==
  /\ pc = "collect"
  /\ Len(dataset_shards) = 23
  /\ num_workers = 4
  /\ shards_per_requests = 1
  /\ Len(requests) = 23

\* C6 as stated: for a fixed worker count, no smaller number of input shards
\* is planned as more output shards.
ShardCountMonotone ==
  pc /= "separate" =>
    \A n1 \in 0 .. Len(dataset_shards) :
       NumOutputShards(n1, ShardsPerRequests(n1, num_workers)) <= num_output_shards

\* C6 amended: for a fixed worker count, no smaller number of input shards
\* with the same shards_per_job is planned as more output shards.
ShardCountMonotoneSamePerJob ==
  pc /= "separate" =>
    \A n1 \in 0 .. Len(dataset_shards) :
       ShardsPerRequests(n1, num_workers) = shards_per_requests =>
         NumOutputShards(n1, shards_per_requests) <= num_output_shards

\* C6 witness: 21 input shards on one worker, planned as 11 jobs of 2.
ShardCountTwoPerJob ==
  /\ pc = "collect"
  /\ Len(dataset_shards) = 21
  /\ shards_per_requests = 2
  /\ num_output_shards = 11

------------------------------------------------------------------------------
(* Properties of the metadata builder (specification SpecMeta). *)

\* C8: the Cache Metadata the builder produces has one column entry per
\* schema column, index-aligned; the entry of a selected column is available
\* and holds the variant of the column's schema type, the entry of an
\* unselected column is not available and holds no variant.
ColumnCompleteness ==
  pc = "list_shards" =>
    /\ Len(metadata.columns) = Len(data_spec)
    /\ \A i \in ColumnIdxs(data_spec) :
         LET entry == metadata.columns[i + 1]
         IN IF i \in SelectedColumns(data_spec, columns, config)
            THEN /\ entry.available
                 /\ entry.type_case = VariantOf(SpecColumn(data_spec, i).type)
                 /\ entry.type_case /= "TYPE_NOT_SET"
            ELSE entry = EmptyColumn

\* C8 witness: the builder succeeded on a two-column schema with one column
\* selected and a boolean column left out.
ColumnCompletenessReached ==
  /\ pc = "list_shards"
  /\ Len(data_spec) = 2
  /\ columns = Set(<<1>>)
  /\ config.label_column_idx = Unset
  /\ config.weight_column_idx = Unset
  /\ SpecColumn(data_spec, 0).type = "STRING"
  /\ SpecColumn(data_spec, 1).type = "BOOLEAN"

\* C9: the builder returns the unsupported-type error exactly when some
\* selected column has a type outside NUMERICAL, CATEGORICAL, BOOLEAN; any
\* other failure of the builder is a configuration error.
UnsupportedTypeIff ==
  [][pc = "init_metadata" =>
       LET unsupported == SelectsUnsupported(data_spec, columns, config)
       IN /\ (pc' = "returned" /\ status'.message = "Non supported type")
               <=> unsupported
          /\ (pc' = "returned" /\ ~unsupported) =>
               status'.message \in ConfigMessages
          /\ pc' = "returned" => status'.code = "INVALID_ARGUMENT"]_vars

\* C9 witness: the builder returned the unsupported-type error.
UnsupportedTypeReturned ==
  /\ pc = "returned"
  /\ status = InvalidArgumentError("Non supported type")

------------------------------------------------------------------------------
(* Properties of the build (specifications Spec and SpecLive). *)

\* C1: a build that began with no root file and wrote it submitted one
\* request for each shard whose Shard Metadata file was missing when it
\* began and none for the others, N - k in all; every one of the N Shard
\* Metadata files exists, and the root's num_examples is their sum, which is
\* the number of examples of the dataset whichever files pre-existed.
Resumability ==
  (pc = "manager_done" \/ BuiltOk) =>
    LET root == Val(rootFile)
        n == root.num_shards_in_feature_cache
        k == Cardinality(DOMAIN start.shards)
        missing == {i \in 0 .. n - 1 :
                      ShardMetadataPath(i, n) \notin DOMAIN start.shards}
    IN /\ Len(requests) = n - k
       /\ {requests[j].shard_idx : j \in 1 .. Len(requests)} = missing
       /\ Cardinality(missing) = Len(requests)
       /\ DOMAIN shardFiles = ShardPaths(n)
       /\ root.num_examples = SumOver(shardFiles, ShardPaths(n))
       /\ root.num_examples = DatasetExamples

\* C1 witness: a build that found one of two Shard Metadata files returned
\* success after submitting one request.
ResumedBuildReturned ==
  /\ BuiltOk
  /\ Cardinality(DOMAIN start.shards) = 1
  /\ Val(rootFile).num_shards_in_feature_cache = 2
  /\ Len(requests) = 1

\* C2: an invocation that finds the root file creates no directory, creates
\* no manager, submits no request and leaves every file as it was; it
\* returns success unless the existence check or the load of the root file
\* itself fails.
ShortCircuit ==
  (Has(start.root) /\ pc /= "idle") =>
    /\ rootFile = start.root
    /\ shardFiles = start.shards
    /\ dirs = start.dirs
    /\ manager = NoManager
    /\ requests = <<>>
    /\ pc \in {"check_existing", "returned", "crashed"}
    /\ pc = "returned" =>
         \/ status = OkStatus
         \/ status \in {ExternalError("FileExists"), ExternalError("GetBinaryProto")}

\* C2 witness: an invocation on a finished cache returned success.
ShortCircuitReturned ==
  /\ pc = "returned"
  /\ Has(start.root)
  /\ status = OkStatus

\* C3 as stated: a build that began with no root file and returned an error
\* has left no root file.
RootWithheldOnError ==
  (pc = "returned" /\ status /= OkStatus /\ ~Has(start.root)) => ~Has(rootFile)

\* C4: whenever the root file exists, the N Shard Metadata files it counts
\* exist and its num_examples is their sum; an invocation that has written
\* the root file has no request in flight and has collected as many answers
\* as it submitted requests.
FinalizedCacheComplete ==
  /\ Has(rootFile) =>
       LET root == Val(rootFile)
           n == root.num_shards_in_feature_cache
       IN /\ ShardPaths(n) \subseteq DOMAIN shardFiles
          /\ root.num_examples = SumOver(shardFiles, ShardPaths(n))
  /\ (Running /\ WroteRoot) =>
       /\ pc = "manager_done"
       /\ manager.inflight = {}
       /\ result_idx = pending_requests
       /\ pending_requests = Len(requests)

\* C4 witness: a build resumed with one of two Shard Metadata files present
\* has written the root file.
ResumedBuildWroteRoot ==
  /\ pc = "manager_done"
  /\ Has(rootFile)
  /\ num_output_shards = 2
  /\ pending_requests = 1

\* C7 as stated: an invocation with remove_zero_weighted_examples = true and
\* no weight column, or a weight column that is not NUMERICAL, that returns
\* without a failure of an external call returns INVALID_ARGUMENT, and no
\* root file exists.
ValidationRejects ==
  [][(Running /\ pc' = "returned" /\ BadWeightConfig(data_spec, config)
        /\ status'.code /= "EXTERNAL")
       => (status'.code = "INVALID_ARGUMENT" /\ ~Has(rootFile'))]_vars

\* C7 amended: the same of an invocation that began with no root file; the
\* error is the configuration error unless a selected column has an
\* unsupported type.
ValidationRejectsFreshBuild ==
  [][(Running /\ pc' = "returned" /\ BadWeightConfig(data_spec, config)
        /\ status'.code /= "EXTERNAL" /\ ~Has(start.root))
       => /\ status'.code = "INVALID_ARGUMENT"
          /\ ~Has(rootFile')
          /\ ~SelectsUnsupported(data_spec, columns, config) =>
               status'.message \in ConfigMessages]_vars

\* C7 witness: a build was rejected for a weight column that is not
\* NUMERICAL, and no root file exists.
ValidationRejected ==
  /\ pc = "returned"
  /\ status = InvalidArgumentError("remove_zero_weighted_examples only support numerical weighted columns")
  /\ ~Has(rootFile)
  /\ dirs /= {}

\* The metadata builder accepts the arguments of the running invocation.
InputsAccepted ==
  /\ ~SelectsUnsupported(data_spec, columns, config)
  /\ Has(config.remove_zero_weighted_examples) =>
       /\ Has(config.weight_column_idx)
       /\ SpecColumn(data_spec, Val(config.weight_column_idx)).type = "NUMERICAL"

\* C10: the collect loop waits only while a request is in flight (as many
\* as it still has answers to collect), and once no external call fails a
\* running invocation whose root file exists or whose arguments the metadata
\* builder accepts eventually returns success with the root file written.
EventualCompletion ==
  /\ [](pc = "collect" =>
          /\ manager.inflight /= {}
          /\ Cardinality(manager.inflight) = pending_requests - result_idx)
  /\ (env = "reliable" /\ Running /\ (Has(rootFile) \/ InputsAccepted))
       ~> (pc = "returned" /\ status = OkStatus /\ Has(rootFile))

\* C10 witness: in the reliable environment a build that found one Shard
\* Metadata file returned success.
ReliableResumedBuildReturned ==
  /\ env = "reliable"
  /\ BuiltOk
  /\ Cardinality(DOMAIN start.shards) = 1
  /\ Len(requests) = 1

\* C11: with no input shard the plan has no output shard, no request is
\* submitted, no answer is awaited and no Shard Metadata file is written; the
\* root Cache Metadata, once written, counts 0 examples and 0 shards, and an
\* invocation whose arguments the metadata builder accepts returns success
\* with the root file written unless an external call fails.
EmptyInput ==
  /\ [](Len(dataset_shards) = 0 =>
          /\ requests = <<>>
          /\ manager.inflight = {}
          /\ pending_requests = 0
          /\ result_idx = 0
          /\ pc \notin {"dispatch", "collect", "persist", "fold"}
          /\ shardFiles = <<>>
          /\ pc \in {"restore", "write_root", "manager_done"} =>
               /\ num_output_shards = 0
               /\ metadata.num_examples = 0
               /\ metadata.num_shards_in_feature_cache = 0
          /\ Has(rootFile) =>
               /\ Val(rootFile).num_examples = 0
               /\ Val(rootFile).num_shards_in_feature_cache = 0)
  /\ [][(Len(dataset_shards) = 0 /\ Running /\ pc' = "returned"
           /\ InputsAccepted /\ status'.code /= "EXTERNAL")
          => (status' = OkStatus /\ Has(rootFile'))]_vars

\* C11 witness: a full build on no input shard returned success and left a
\* root file of 0 examples and 0 shards and no Shard Metadata file.
EmptyInputBuilt ==
  /\ BuiltOk
  /\ Len(dataset_shards) = 0
  /\ Val(rootFile).num_examples = 0
  /\ Val(rootFile).num_shards_in_feature_cache = 0
  /\ shardFiles = <<>>

------------------------------------------------------------------------------
(* Properties of the report (specification SpecReport). *)

\* The features the report is about: the given vector, or every column.
ReportedFeatures ==
  IF Has(features) THEN Val(features)
  ELSE [i \in 1 .. Len(metadata.columns) |-> i - 1]

\* The positions of the numerical columns in the reported features, and the
\* number of unique values of each.
NumericalPositions ==
  {i \in 1 .. Len(ReportedFeatures) :
     metadata.columns[ReportedFeatures[i] + 1].type_case = "numerical"}
UniqueValuesAt ==
  [i \in NumericalPositions |->
     metadata.columns[ReportedFeatures[i] + 1].numerical_num_unique_values]

\* The value of a character that is a decimal digit.
DigitValue(c) ==
  CASE c = "0" -> 0 [] c = "1" -> 1 [] c = "2" -> 2 [] c = "3" -> 3
    [] c = "4" -> 4 [] c = "5" -> 5 [] c = "6" -> 6 [] c = "7" -> 7
    [] c = "8" -> 8 [] c = "9" -> 9

RECURSIVE DecimalValue(_)
\* The number a sequence of decimal digits reads as.
DecimalValue(s) ==
  IF s = <<>> THEN 0
  ELSE 10 * DecimalValue(SubSeq(s, 1, Len(s) - 1)) + DigitValue(s[Len(s)])

\* The position of the piece x in the line s, 0 when it is not there.
PositionOf(x, s) ==
  IF \E i \in 1 .. Len(s) : s[i] = x
  THEN CHOOSE i \in 1 .. Len(s) : s[i] = x /\ \A j \in 1 .. i - 1 : s[j] /= x
  ELSE 0

\* The fraction num / den a printed decimal number reads as.
ReadDecimal(s) ==
  LET point == PositionOf(".", s)
  IN IF point = 0 THEN [num |-> DecimalValue(s), den |-> 1]
     ELSE [num |-> DecimalValue(SubSeq(s, 1, point - 1) \o SubSeq(s, point + 1, Len(s))),
           den |-> Pow10(Len(s) - point)]

AbsDiff(a, b) == IF a >= b THEN a - b ELSE b - a

\* The line reads "<literal><ratio> (<count>)" where <count> is the given
\* count and <ratio> is count / total to within half a unit of the sixth
\* decimal.
StatesRatio(line, literal, count, total) ==
  LET open == PositionOf(" (", line)
  IN /\ Head(line) = literal
     /\ open > 2
     /\ line[Len(line)] = ")"
     /\ DecimalValue(SubSeq(line, open + 1, Len(line) - 1)) = count
     /\ LET printed == ReadDecimal(SubSeq(line, 2, open - 1))
        IN AbsDiff(printed.num * total, count * printed.den) * 2000000
             <= total * printed.den

\* Scenario B: three numerical columns with 50, 150 and 9 unique values, none
\* discretized, all reported.
ScenarioB ==
  /\ Len(metadata.columns) = 3
  /\ features = Unset
  /\ \A i \in 1 .. 3 : /\ metadata.columns[i].type_case = "numerical"
                       /\ ~metadata.columns[i].numerical_discretized
  /\ {metadata.columns[i].numerical_num_unique_values : i \in 1 .. 3} = {50, 150, 9}

\* The general part of C12: when the reported features hold a numerical
\* column, one line of the report states the mean number of unique values of
\* the numerical columns (the quotient without its fraction) and one line
\* states the ratio of those with at most 100 unique values, followed by their
\* count in parentheses.
StatesNumericalSection ==
  LET total == Cardinality(NumericalPositions)
      sum == SumOver(UniqueValuesAt, NumericalPositions)
      small == Cardinality({i \in NumericalPositions : UniqueValuesAt[i] <= 100})
  IN total > 0 =>
       /\ \E k \in 1 .. Len(report) :
            LET line == report[k]
                mean == DecimalValue(Tail(line))
            IN /\ Head(line) = "\tMean number of unique values: "
               /\ mean * total <= sum
               /\ sum < (mean + 1) * total
       /\ \E k \in 1 .. Len(report) :
            StatesRatio(report[k],
                        "\tRatio of numerical columns with <=100 values: ",
                        small, total)

\* C12 as stated: the numerical section states the mean and the ratio with
\* its count, and for scenario B the report states "Mean number of unique
\* values: 69" and "Ratio of numerical columns with <=100 values: 0.67 (2)".
ReportStatistics ==
  pc = "reported" =>
    /\ StatesNumericalSection
    /\ ScenarioB =>
         /\ \E k \in 1 .. Len(report) :
              report[k] = <<"\tMean number of unique values: ", "6", "9">>
         /\ \E k \in 1 .. Len(report) :
              report[k] = <<"\tRatio of numerical columns with <=100 values: ",
                            "0", ".", "6", "7", " (", "2", ")">>

\* C12 amended: the same, the ratio of scenario B being printed with six
\* significant digits, "0.666667 (2)".
ReportStatisticsSixDigits ==
  pc = "reported" =>
    /\ StatesNumericalSection
    /\ ScenarioB =>
         /\ \E k \in 1 .. Len(report) :
              report[k] = <<"\tMean number of unique values: ", "6", "9">>
         /\ \E k \in 1 .. Len(report) :
              report[k] = <<"\tRatio of numerical columns with <=100 values: ",
                            "0", ".", "6", "6", "6", "6", "6", "7",
                            " (", "2", ")">>

\* C12 witness: the report of scenario B has been produced.
ScenarioBReported ==
  /\ pc = "reported"
  /\ ScenarioB
  /\ Len(report) = 11

------------------------------------------------------------------------------
(* Properties of the collect loop (specification Spec). *)

\* The Shard Metadata file of output shard i of the running build holds the
\* number of examples of the input shards of job i.
ShardFileOfJob(i) ==
  /\ ShardMetadataPath(i, num_output_shards) \in DOMAIN shardFiles
  /\ shardFiles[ShardMetadataPath(i, num_output_shards)] =
       CountExamples(ClaimedRange(i + 1, shards_per_requests, dataset_shards))

\* C13: in whichever order the answers arrive, every write of a Shard
\* Metadata file is the write of the answer to a request in flight: it
\* creates the file keyed by the shard index of that request, holding the
\* number of examples of that request's input shards, the file did not exist
\* before (neither earlier in the build nor when the build began), and no
\* other file changes; once the collect loop is over the files are those of
\* all the output shards, each with the count of its job, and the aggregate
\* is the number of examples of the dataset, whatever the order was.
OutOfOrderCollection ==
  /\ [][shardFiles' /= shardFiles =>
          /\ Has(result)
          /\ \E k \in 1 .. Len(requests) :
               LET r == requests[k]
                   path == ShardMetadataPath(Val(result).shard_idx, num_output_shards)
               IN /\ r.shard_idx = Val(result).shard_idx
                  /\ r \notin manager.inflight
                  /\ path \notin DOMAIN shardFiles
                  /\ path \notin DOMAIN start.shards
                  /\ DOMAIN shardFiles' = DOMAIN shardFiles \cup {path}
                  /\ shardFiles'[path] = Val(result).num_examples
                  /\ Val(result).num_examples = CountExamples(r.dataset_path)
                  /\ \A q \in DOMAIN shardFiles : shardFiles'[q] = shardFiles[q]]_vars
  /\ [](pc \in {"restore", "write_root", "manager_done"} =>
          /\ DOMAIN shardFiles = ShardPaths(num_output_shards)
          /\ \A i \in 0 .. num_output_shards - 1 : ShardFileOfJob(i)
          /\ metadata.num_examples = DatasetExamples
          /\ manager.inflight = {})

\* C13 witness: of two requests in flight the answer for shard 1 was
\* collected first.
SecondShardCollectedFirst ==
  /\ pc = "collect"
  /\ Len(requests) = 2
  /\ result_idx = 1
  /\ ShardMetadataPath(1, 2) \in DOMAIN shardFiles
  /\ ShardMetadataPath(0, 2) \notin DOMAIN shardFiles

\* The output shards whose count the running total of the build includes:
\* those the dispatch loop found a file for and those whose answer the
\* collect loop has processed, that is the shards the dispatch loop has
\* passed that have a file, but for the answer being processed.
CountedShards ==
  {i \in 0 .. output_shard_idx - 1 :
     /\ ShardMetadataPath(i, num_output_shards) \in DOMAIN shardFiles
     /\ ~(Has(result) /\ Val(result).shard_idx = i)}

\* C14: whenever the running total of a build changes, by the count of a
\* shard found on disk or by the count of an answer, the Shard Metadata file
\* of that shard is already on disk and the total grows by the count the file
\* holds; at every point of the separation phase (a failure or a crash can
\* follow any of them) the running total is the sum of the files of the
\* shards counted so far, all of which exist.
PersistBeforeFold ==
  /\ [][(Running /\ pc' \notin {"returned", "crashed"}
           /\ metadata'.num_examples /= metadata.num_examples) =>
          \E path \in DOMAIN shardFiles :
             /\ path = ShardMetadataPath(
                         IF pc = "dispatch" THEN output_shard_idx
                         ELSE Val(result).shard_idx, num_output_shards)
             /\ metadata'.num_examples =
                  metadata.num_examples + shardFiles[path]]_vars
  /\ [](pc \in {"dispatch", "collect", "persist", "fold", "restore",
                "write_root", "manager_done"} =>
          metadata.num_examples =
            SumOver(shardFiles, {ShardMetadataPath(i, num_output_shards) :
                                   i \in CountedShards}))

\* C14 witness: the file of an answer is on disk and its count is not in the
\* running total yet, which holds the count of a shard found on disk.
PersistedNotYetFolded ==
  /\ pc = "fold"
  /\ Cardinality(DOMAIN start.shards) = 1
  /\ DOMAIN shardFiles = ShardPaths(2)
  /\ metadata.num_examples > 0
  /\ metadata.num_examples < DatasetExamples

\* C15 as stated: the per-worker concurrency limit of the pool is 1 only
\* while the separation phase runs, and whenever the phase has returned, with
\* success or with an error, the limit is the default the pool was created
\* with.
ConcurrencyScopedToPhase ==
  /\ (manager.created /\ manager.parallel_execution_per_worker = 1) =>
       pc \in {"dispatch", "collect", "persist", "fold", "restore"}
  /\ pc \in {"separate_failed", "write_root", "manager_done"} =>
       manager.parallel_execution_per_worker = kNumParallelQueriesPerWorker

\* C16: a request is submitted only while the per-worker concurrency limit is
\* 1 and before any answer has been awaited (every request submitted so far
\* is still in flight); an answer is awaited only by the collect loop, after
\* the dispatch loop; once the collect loop is over as many answers have been
\* awaited as requests were submitted (the pending counter), and none is in
\* flight then nor when the root file is written.
DispatchCollectOrdering ==
  /\ [][Len(requests') > Len(requests) =>
          /\ pc = "dispatch"
          /\ manager.parallel_execution_per_worker = 1
          /\ result_idx = 0
          /\ Cardinality(manager.inflight) = Len(requests)
          /\ pending_requests = Len(requests)
          /\ pending_requests' = Len(requests')]_vars
  /\ [][(Running /\ manager'.inflight /= manager.inflight
           /\ Len(requests') = Len(requests) /\ pc' \notin {"returned", "crashed"}) =>
          /\ pc = "collect"
          /\ output_shard_idx = num_output_shards
          /\ Cardinality(manager'.inflight) = Cardinality(manager.inflight) - 1]_vars
  /\ [](pc \in {"restore", "write_root", "manager_done"} =>
          /\ result_idx = pending_requests
          /\ pending_requests = Len(requests)
          /\ manager.inflight = {})

\* C16 witness: the collect loop is over after two requests and two answers.
TwoSubmittedTwoAwaited ==
  /\ pc = "restore"
  /\ Len(requests) = 2
  /\ pending_requests = 2
  /\ result_idx = 2

\* C17: every request submitted by a build, also by one that skips shards
\* found on disk, is sent to a worker of the pool, the one whose index differs
\* from the request's shard index by a multiple of the pool size, however
\* many requests were submitted before it.
RoundRobinAssignment ==
  \A k \in 1 .. Len(requests) :
     LET r == requests[k]
     IN /\ r.worker_idx \in 0 .. num_workers - 1
        /\ \E q \in 0 .. r.shard_idx : r.shard_idx = q * num_workers + r.worker_idx

\* C17 witness: a resumed build on two workers skipped shard 0 and sent its
\* first request, for shard 1, to worker 1.
SkippedThenSentToSecondWorker ==
  /\ num_workers = 2
  /\ ShardMetadataPath(0, 2) \in DOMAIN start.shards
  /\ Len(requests) = 1
  /\ requests[1].shard_idx = 1
  /\ requests[1].worker_idx = 1

\* C18: the step of a build at which a call fails writes no file, submits no
\* request and awaits no answer, and ends the separation phase or the build
\* with an error; after a failed separation phase the build's only step is to
\* return that same error, nothing on disk and no request changing; after an
\* error return nothing changes until the build is invoked again; and no two
\* requests of one invocation are for the same output shard.
FirstFaultAbort ==
  /\ [][(Running /\ status.code = "NONE" /\ status'.code \notin {"NONE", "OK"}) =>
          /\ pc' \in {"separate_failed", "returned"}
          /\ status'.code \in {"EXTERNAL", "INVALID_ARGUMENT"}
          /\ UNCHANGED <<rootFile, shardFiles, requests>>
          /\ pc' = "separate_failed" => manager'.inflight = manager.inflight]_vars
  /\ [][pc = "separate_failed" =>
          /\ pc' \in {"returned", "crashed"}
          /\ pc' = "returned" => status' = status
          /\ UNCHANGED <<diskVars, requests>>]_vars
  /\ [][(pc = "returned" /\ status /= OkStatus) =>
          /\ pc' = "check_existing"
          /\ UNCHANGED diskVars]_vars
  /\ [](\A j, k \in 1 .. Len(requests) :
          requests[j].shard_idx = requests[k].shard_idx => j = k)

\* C18 witness: a build that had submitted two requests returned the error
\* of the call awaiting an answer.
AwaitErrorReturned ==
  /\ pc = "returned"
  /\ status = ExternalError("NextAsynchronousProtoAnswer")
  /\ Len(requests) = 2

\* C19: over any sequence of invocations, failing at any step or crashing,
\* no step removes a directory, removes a Shard Metadata file or changes the
\* count a Shard Metadata file holds; hence the shards of the cache that lack
\* a Shard Metadata file never become more.
PartialStateSurvives ==
  [][/\ dirs \subseteq dirs'
     /\ DOMAIN shardFiles \subseteq DOMAIN shardFiles'
     /\ \A p \in DOMAIN shardFiles : shardFiles'[p] = shardFiles[p]
     /\ \A n \in 0 .. MaxShards + 1 :
          (ShardPaths(n) \ DOMAIN shardFiles') \subseteq
            (ShardPaths(n) \ DOMAIN shardFiles)]_vars

\* C19 witness: a build that began with one Shard Metadata file on disk and
\* wrote the other returned an error; both files and the directories are
\* there and no root file is.
FailedBuildKeptFiles ==
  /\ pc = "returned"
  /\ status.code = "EXTERNAL"
  /\ Cardinality(DOMAIN start.shards) = 1
  /\ DOMAIN shardFiles = ShardPaths(2)
  /\ \A p \in DOMAIN start.shards : shardFiles[p] = start.shards[p]
  /\ dirs = AllDirs
  /\ ~Has(rootFile)

------------------------------------------------------------------------------
(* Properties of the column selection (specification SpecColumns). *)

------------------------------------------------------------------------------
(* Properties of the metadata through the separation phase (specification  *)
(* Spec).                                                                   *)

\* C21: no step of the separation phase changes the column entries, the
\* label index or the weight index of the in-progress Cache Metadata; the
\* root file a build writes holds the column entries and the label and
\* weight indices the metadata builder produced for the build's arguments,
\* with the number of output shards of the plan, however many answers were
\* collected and in whatever order.
ColumnMetadataFrozen ==
  /\ [][(pc \in {"separate", "dispatch", "collect", "persist", "fold", "restore"}
           /\ pc' \notin {"returned", "crashed"}) =>
          /\ metadata'.columns = metadata.columns
          /\ metadata'.label_column_idx = metadata.label_column_idx
          /\ metadata'.weight_column_idx = metadata.weight_column_idx]_vars
  /\ [](pc = "manager_done" =>
          LET built == InitializeMetadata(
                         data_spec, GetColumnsOrAll(data_spec, columns, config),
                         config, EmptyMetadata).metadata
              root == Val(rootFile)
          IN /\ root.columns = built.columns
             /\ Len(root.columns) = Len(data_spec)
             /\ root.label_column_idx = config.label_column_idx
             /\ root.weight_column_idx = config.weight_column_idx
             /\ root.num_shards_in_feature_cache = num_output_shards
             /\ DOMAIN root = DOMAIN built)

\* C21 witness: a build with a label column that collected two answers has
\* written the root file, whose label entry is available.
RootWrittenAfterTwoAnswers ==
  /\ pc = "manager_done"
  /\ Len(requests) = 2
  /\ result_idx = 2
  /\ Val(rootFile).label_column_idx = Set(0)
  /\ Val(rootFile).columns[1].available

------------------------------------------------------------------------------
(* Properties of the weight-column check (specification SpecColumns). *)

\* C22 as stated: a build whose configuration sets
\* remove_zero_weighted_examples to false and has no weight column, or a
\* weight column that is not NUMERICAL, and whose selected columns all have
\* a supported type, is accepted by the metadata builder; and no request of a
\* build with remove_zero_weighted_examples set to false carries a
\* zero-weight-drop column.
ExplicitFalseNotRejected ==
  /\ [][(/\ pc = "init_metadata"
         /\ config.remove_zero_weighted_examples = Set(FALSE)
         /\ \/ ~Has(config.weight_column_idx)
            \/ SpecColumn(data_spec, Val(config.weight_column_idx)).type /= "NUMERICAL"
         /\ ~SelectsUnsupported(data_spec, columns, config))
          => (pc' = "list_shards" /\ status' = NoStatus)]_vars
  /\ [](config.remove_zero_weighted_examples = Set(FALSE) =>
          \A k \in 1 .. Len(requests) :
             requests[k].column_idx_remove_example_with_zero = Unset)

------------------------------------------------------------------------------
(* Bounds of the shard plan (specification SpecPlan). *)

\* C23: the plan has at most min(Nin, 2*W*K - 1) output shards, fewer than
\* 2*K per worker of the pool; every request covers at most shards_per_job
\* input shards, shards_per_job being 1 below 2*W*K input shards and at most
\* Nin / (W*K) from there on; and no worker is sent more than 2*K requests.
BoundedShardCount ==
  pc /= "separate" =>
    LET nin == Len(dataset_shards)
        wk == num_workers * kNumShardPerWorkers
    IN /\ num_output_shards <= nin
       /\ num_output_shards <= 2 * wk - 1
       /\ num_output_shards < 2 * kNumShardPerWorkers * num_workers
       /\ nin < 2 * wk => shards_per_requests = 1
       /\ nin >= wk => shards_per_requests * wk <= nin
       /\ \A k \in 1 .. Len(requests) :
            /\ Len(requests[k].dataset_path) <= shards_per_requests
            /\ Len(requests[k].dataset_path) >= 1
       /\ \A w \in 0 .. num_workers - 1 :
            Cardinality({k \in 1 .. Len(requests) : requests[k].worker_idx = w})
              <= 2 * kNumShardPerWorkers

\* C23 witness: 39 input shards on two workers are planned as 39 output
\* shards, the most a pool of two gets, all dispatched.
ShardCountAtBound ==
  /\ pc = "collect"
  /\ num_workers = 2
  /\ Len(dataset_shards) = 39
  /\ num_output_shards = 39
  /\ Len(requests) = 39

====
